---- MODULE Spec2Model ----
(***************************************************************************)
(* rusty-gl (src/src/buffers.rs, src/src/enums.rs): typed free functions   *)
(* that forward to the OpenGL driver.  The wrapper owns no state; the      *)
(* state of the system is the driver context the calls act on.  Each       *)
(* wrapper is modelled by the driver calls it issues (a pure function of   *)
(* its arguments); each driver entry point is modelled by the behaviour    *)
(* the OpenGL reference pages cited in the wrappers' doc comments give it. *)
(***************************************************************************)
EXTENDS Integers, Sequences, FiniteSets, TLC

(***************************************************************************)
(* Bounds of the model.                                                    *)
(***************************************************************************)
\* buffer names the driver hands out are 1..MaxBuf
MaxBuf == 2
\* vertex-array names the driver hands out are 1..MaxVao
MaxVao == 1
\* largest count passed to the N-handle forms
MaxCount == 2
\* longest u8 / unit sequence passed to an upload
MaxLen == 2
\* wrapper invocations in one run (the doc example's run is followed to its end)
MaxSteps == 4

(***************************************************************************)
(* Enumerations (enums.rs) and their `as u32` / `as GLenum` casts.         *)
(***************************************************************************)
ARRAY_BUFFER == 34962
STATIC_DRAW == 35044
FLOAT == 5126

Target == {"ArrayBuffer"}
Usage == {"StaticDraw"}
Type == {"Float"}

TargetAsU32(t) == CASE t = "ArrayBuffer" -> ARRAY_BUFFER
UsageAsU32(u) == CASE u = "StaticDraw" -> STATIC_DRAW
TypeAsU32(t) == CASE t = "Float" -> FLOAT
\* `normalised as GLboolean`
BoolAsU8(b) == IF b THEN 1 ELSE 0

(***************************************************************************)
(* Slices.  A slice &[T] is its element size and its elements, each        *)
(* element being its size_of::<T>() bytes in memory.  The pointer          *)
(* transmute(&data[0]) exposes the concatenation of those bytes.           *)
(***************************************************************************)
RECURSIVE Flatten(_)
Flatten(ss) == IF ss = <<>> THEN <<>> ELSE Head(ss) \o Flatten(Tail(ss))

\* the bytes readable from the address of data's first element
MemOf(data) == Flatten(data.elems)

\* data.len() * mem::size_of::<T>()
ByteLen(data) == Len(data.elems) * data.size

\* f32 values of the doc example, little-endian IEEE-754
F32_zero == <<0, 0, 0, 0>>
F32_half == <<0, 0, 0, 63>>
F32_neg_half == <<0, 0, 0, 191>>
\* let vertex_data: [GLfloat; 6] = [0.0, 0.5, 0.5, -0.5, -0.5, -0.5];
vertex_data == [size |-> 4,
                elems |-> <<F32_zero, F32_half, F32_half,
                            F32_neg_half, F32_neg_half, F32_neg_half>>]

(***************************************************************************)
(* The wrappers: what a call of each issues to the driver.  A wrapper      *)
(* either panics before reaching the driver or issues its calls in order.  *)
(***************************************************************************)
Issue(calls) == [panic |-> FALSE, calls |-> calls]
\* slice index out of bounds: the argument &data[0] is evaluated before the call
PanicIndex == [panic |-> TRUE, calls |-> <<>>]

gen_vertex_arrays(count) ==
    Issue(<<[fn |-> "GenVertexArrays", n |-> count]>>)

gen_vertex_array == gen_vertex_arrays(1)

gen_buffers(count) ==
    Issue(<<[fn |-> "GenBuffers", n |-> count]>>)

\* faulty variant of gen_buffer: no handle requested
gen_buffer_none == gen_buffers(0)

gen_buffer == gen_buffers(1)

\* faulty variant of bind_vertex_array: the default array bound whatever the handle
bind_vertex_array_zero(array) ==
    Issue(<<[fn |-> "BindVertexArray", array |-> 0]>>)

bind_vertex_array(array) ==
    Issue(<<[fn |-> "BindVertexArray", array |-> array]>>)

\* faulty variant of bind_buffer: unbind_buffer's body
bind_buffer_zero(target, buffer) ==
    Issue(<<[fn |-> "BindBuffer", target |-> TargetAsU32(target),
             buffer |-> 0]>>)

bind_buffer(target, buffer) ==
    Issue(<<[fn |-> "BindBuffer", target |-> TargetAsU32(target),
             buffer |-> buffer]>>)

\* faulty variant of unbind_buffer: the two arguments in each other's place
unbind_buffer_swapped(target) ==
    Issue(<<[fn |-> "BindBuffer", target |-> 0,
             buffer |-> TargetAsU32(target)]>>)

unbind_buffer(target) ==
    Issue(<<[fn |-> "BindBuffer", target |-> TargetAsU32(target),
             buffer |-> 0]>>)

\* faulty variant of enable_vertex_attrib_array: the index off by one
enable_vertex_attrib_array_next(index) ==
    Issue(<<[fn |-> "EnableVertexAttribArray", index |-> index + 1]>>)

enable_vertex_attrib_array(index) ==
    Issue(<<[fn |-> "EnableVertexAttribArray", index |-> index]>>)

\* faulty variant of vertex_attrib_pointer: size and stride in each other's place
vertex_attrib_pointer_swapped(index, size, type_, normalised, stride) ==
    Issue(<<[fn |-> "VertexAttribPointer", index |-> index, size |-> stride,
             type |-> TypeAsU32(type_), norm |-> BoolAsU8(normalised),
             stride |-> size, pointer |-> 0]>>)

vertex_attrib_pointer(index, size, type_, normalised, stride) ==
    Issue(<<[fn |-> "VertexAttribPointer", index |-> index, size |-> size,
             type |-> TypeAsU32(type_), norm |-> BoolAsU8(normalised),
             stride |-> stride, pointer |-> 0]>>)

\* faulty variants of buffer_data: the element count passed as the byte size; the
\* pointer taken with as_ptr(), which does not index the slice
buffer_data_len_as_size(target, data, usage) ==
    IF Len(data.elems) = 0 THEN PanicIndex
    ELSE Issue(<<[fn |-> "BufferData", target |-> TargetAsU32(target),
                  size |-> Len(data.elems), data |-> MemOf(data),
                  usage |-> UsageAsU32(usage)]>>)

buffer_data_as_ptr(target, data, usage) ==
    Issue(<<[fn |-> "BufferData", target |-> TargetAsU32(target),
             size |-> ByteLen(data), data |-> MemOf(data),
             usage |-> UsageAsU32(usage)]>>)

buffer_data(target, data, usage) ==
    IF Len(data.elems) = 0 THEN PanicIndex
    ELSE Issue(<<[fn |-> "BufferData", target |-> TargetAsU32(target),
                  size |-> ByteLen(data), data |-> MemOf(data),
                  usage |-> UsageAsU32(usage)]>>)

\* faulty variant of buffer_sub_data: offset and size passed in each other's place
buffer_sub_data_swapped(target, offset, size, data) ==
    IF Len(data.elems) = 0 THEN PanicIndex
    ELSE Issue(<<[fn |-> "BufferSubData", target |-> TargetAsU32(target),
                  offset |-> size, size |-> offset, data |-> MemOf(data)]>>)

buffer_sub_data(target, offset, size, data) ==
    IF Len(data.elems) = 0 THEN PanicIndex
    ELSE Issue(<<[fn |-> "BufferSubData", target |-> TargetAsU32(target),
                  offset |-> offset, size |-> size, data |-> MemOf(data)]>>)

delete_buffers(count, buffers) ==
    Issue(<<[fn |-> "DeleteBuffers", n |-> count, names |-> buffers]>>)

delete_buffer(buffer) ==
    Issue(<<[fn |-> "DeleteBuffers", n |-> 1, names |-> <<buffer>>]>>)

delete_vertex_arrays(count, arrays) ==
    Issue(<<[fn |-> "DeleteVertexArrays", n |-> count, names |-> arrays]>>)

delete_vertex_array(array) == delete_vertex_arrays(1, <<array>>)

(***************************************************************************)
(* The driver context.  Names: `buffers` and `arrays` are the names in use *)
(* (returned by Gen*, or first bound on a context that creates on bind);   *)
(* `store` is each buffer's data store (bytes); `arrayBuffer` and          *)
(* `vertexArray` are the binding registers; `attribs` is the generic       *)
(* vertex attribute state of each vertex array (0 is the default array).   *)
(***************************************************************************)
BufNames == 1..MaxBuf
VaoNames == 1..MaxVao
\* the generic vertex attribute slots of the driver (one is modelled)
AttribSlots == {0}
\* bytes an out-of-bounds read of client memory may return
GarbageBytes == {0, 255}
\* "core": unknown names are rejected and a vertex array must be bound;
\* "compat": binding an unused buffer name creates the object (ES 2.0, compatibility)
Profiles == {"core", "compat"}

DefaultAttrib == [enabled |-> FALSE, size |-> 4, type |-> FLOAT, norm |-> 0,
                  stride |-> 0, pointer |-> 0, buffer |-> 0]

InitGL(p) == [profile |-> p,
              buffers |-> {},
              store |-> [b \in BufNames |-> <<>>],
              arrayBuffer |-> 0,
              arrays |-> {},
              vertexArray |-> 0,
              attribs |-> [v \in 0..MaxVao |-> [i \in AttribSlots |-> DefaultAttrib]]]

\* an erroneous command: the driver flags the error and changes nothing else
\* (the wrapper never reads the flag; last.err records it per call)
Fail(g, e) == {[gl |-> g, err |-> e, written |-> <<>>, crashed |-> FALSE]}
Done(g, written) == [gl |-> g, err |-> "NO_ERROR", written |-> written, crashed |-> FALSE]
\* the driver faulted while reading client memory: the process is gone
Crashed(g) == [gl |-> g, err |-> "NO_ERROR", written |-> <<>>, crashed |-> TRUE]

Range(s) == {s[i] : i \in 1..Len(s)}

RECURSIVE Arrangements(_, _)
\* the sequences of n pairwise distinct members of S
Arrangements(S, n) ==
    IF n = 0 THEN {<<>>}
    ELSE UNION {{<<x>> \o s : s \in Arrangements(S \ {x}, n - 1)} : x \in S}

RECURSIVE SeqsOf(_, _)
\* the sequences of length n over S
SeqsOf(S, n) ==
    IF n = 0 THEN {<<>>}
    ELSE {<<x>> \o s : x \in S, s \in SeqsOf(S, n - 1)}

\* what reading n bytes from a pointer to `mem` gives: the bytes, or, past the
\* end of the allocation, whatever lies there (or a fault)
ReadClient(mem, n) ==
    IF n <= Len(mem) THEN {[crashed |-> FALSE, bytes |-> SubSeq(mem, 1, n)]}
    ELSE {[crashed |-> FALSE, bytes |-> mem \o t] :
              t \in SeqsOf(GarbageBytes, n - Len(mem))}
         \cup {[crashed |-> TRUE, bytes |-> <<>>]}

\* s with the bytes at positions off .. off+Len(bytes)-1 (0-based) replaced
Patch(s, off, bytes) ==
    SubSeq(s, 1, off) \o bytes \o SubSeq(s, off + Len(bytes) + 1, Len(s))

GL_GenVertexArrays(g, c) ==
    IF c.n < 0 THEN Fail(g, "INVALID_VALUE")
    ELSE {Done([g EXCEPT !.arrays = @ \cup Range(s)], s) :
              s \in Arrangements(VaoNames \ g.arrays, c.n)}

GL_GenBuffers(g, c) ==
    IF c.n < 0 THEN Fail(g, "INVALID_VALUE")
    ELSE {Done([g EXCEPT !.buffers = @ \cup Range(s)], s) :
              s \in Arrangements(BufNames \ g.buffers, c.n)}

GL_BindVertexArray(g, c) ==
    IF c.array = 0 \/ c.array \in g.arrays
    THEN {Done([g EXCEPT !.vertexArray = c.array], <<>>)}
    ELSE Fail(g, "INVALID_OPERATION")

GL_BindBuffer(g, c) ==
    IF c.target # ARRAY_BUFFER THEN Fail(g, "INVALID_ENUM")
    ELSE IF c.buffer = 0 \/ c.buffer \in g.buffers
    THEN {Done([g EXCEPT !.arrayBuffer = c.buffer], <<>>)}
    ELSE IF g.profile = "core" THEN Fail(g, "INVALID_OPERATION")
    ELSE {Done([g EXCEPT !.buffers = @ \cup {c.buffer},
                         !.store[c.buffer] = <<>>,
                         !.arrayBuffer = c.buffer], <<>>)}

\* the context needs a bound vertex array to hold attribute state
NeedsArray(g) == g.profile = "core" /\ g.vertexArray = 0

GL_EnableVertexAttribArray(g, c) ==
    IF c.index \notin AttribSlots THEN Fail(g, "INVALID_VALUE")
    ELSE IF NeedsArray(g) THEN Fail(g, "INVALID_OPERATION")
    ELSE {Done([g EXCEPT !.attribs[g.vertexArray][c.index].enabled = TRUE], <<>>)}

GL_VertexAttribPointer(g, c) ==
    IF c.index \notin AttribSlots \/ c.size \notin 1..4 \/ c.stride < 0
    THEN Fail(g, "INVALID_VALUE")
    ELSE IF c.type # FLOAT THEN Fail(g, "INVALID_ENUM")
    ELSE IF NeedsArray(g) THEN Fail(g, "INVALID_OPERATION")
    ELSE {Done([g EXCEPT !.attribs[g.vertexArray][c.index] =
                    [enabled |-> @.enabled, size |-> c.size, type |-> c.type,
                     norm |-> c.norm, stride |-> c.stride,
                     pointer |-> c.pointer, buffer |-> g.arrayBuffer]], <<>>)}

GL_BufferData(g, c) ==
    IF c.target # ARRAY_BUFFER \/ c.usage # STATIC_DRAW THEN Fail(g, "INVALID_ENUM")
    ELSE IF c.size < 0 THEN Fail(g, "INVALID_VALUE")
    ELSE IF g.arrayBuffer = 0 THEN Fail(g, "INVALID_OPERATION")
    ELSE {IF r.crashed THEN Crashed(g)
          ELSE Done([g EXCEPT !.store[g.arrayBuffer] = r.bytes], <<>>) :
              r \in ReadClient(c.data, c.size)}

GL_BufferSubData(g, c) ==
    IF c.target # ARRAY_BUFFER THEN Fail(g, "INVALID_ENUM")
    ELSE IF g.arrayBuffer = 0 THEN Fail(g, "INVALID_OPERATION")
    ELSE IF c.offset < 0 \/ c.size < 0
            \/ c.offset + c.size > Len(g.store[g.arrayBuffer])
    THEN Fail(g, "INVALID_VALUE")
    ELSE {IF r.crashed THEN Crashed(g)
          ELSE Done([g EXCEPT !.store[g.arrayBuffer] = Patch(@, c.offset, r.bytes)], <<>>) :
              r \in ReadClient(c.data, c.size)}

\* unused names and 0 are silently ignored; a deleted object that is bound
\* in the current context is unbound first
GL_DeleteBuffers(g, c) ==
    IF c.n < 0 THEN Fail(g, "INVALID_VALUE")
    ELSE LET dead == {c.names[i] : i \in 1..c.n} \cap g.buffers
         IN {Done([g EXCEPT
                 !.buffers = @ \ dead,
                 !.store = [b \in BufNames |-> IF b \in dead THEN <<>> ELSE @[b]],
                 !.arrayBuffer = IF @ \in dead THEN 0 ELSE @,
                 !.attribs[g.vertexArray] =
                     [i \in AttribSlots |->
                         IF @[i].buffer \in dead THEN [@[i] EXCEPT !.buffer = 0] ELSE @[i]]],
               <<>>)}

GL_DeleteVertexArrays(g, c) ==
    IF c.n < 0 THEN Fail(g, "INVALID_VALUE")
    ELSE LET dead == {c.names[i] : i \in 1..c.n} \cap g.arrays
         IN {Done([g EXCEPT
                 !.arrays = @ \ dead,
                 !.vertexArray = IF @ \in dead THEN 0 ELSE @,
                 !.attribs = [v \in 0..MaxVao |->
                                 IF v \in dead THEN [i \in AttribSlots |-> DefaultAttrib]
                                 ELSE @[v]]],
               <<>>)}

\* the outcomes of one driver call
Driver(g, c) ==
    CASE c.fn = "GenVertexArrays" -> GL_GenVertexArrays(g, c)
      [] c.fn = "GenBuffers" -> GL_GenBuffers(g, c)
      [] c.fn = "BindVertexArray" -> GL_BindVertexArray(g, c)
      [] c.fn = "BindBuffer" -> GL_BindBuffer(g, c)
      [] c.fn = "EnableVertexAttribArray" -> GL_EnableVertexAttribArray(g, c)
      [] c.fn = "VertexAttribPointer" -> GL_VertexAttribPointer(g, c)
      [] c.fn = "BufferData" -> GL_BufferData(g, c)
      [] c.fn = "BufferSubData" -> GL_BufferSubData(g, c)
      [] c.fn = "DeleteBuffers" -> GL_DeleteBuffers(g, c)
      [] c.fn = "DeleteVertexArrays" -> GL_DeleteVertexArrays(g, c)

(***************************************************************************)
(* The program: a caller invoking the wrappers in any order.               *)
(*   gl    the driver context                                              *)
(*   last  the invocation that has just returned: the wrapper, its         *)
(*         arguments, the driver calls it issued, the driver's error for   *)
(*         it and the caller's output region afterwards; Idle once the     *)
(*         caller has moved on                                             *)
(*   scn   how far the run so far follows the doc example's sequence       *)
(*   dead  the buffer and vertex-array names deleted so far                *)
(*   steps the number of invocations so far                                *)
(***************************************************************************)
VARIABLES gl, last, scn, dead, steps

vars == <<gl, last, scn, dead, steps>>

BufHandles == 0..MaxBuf
VaoHandles == 0..MaxVao

\* the slices passed to the uploads: the [u8] slices [], [1], [1, 2], ... up to
\* MaxLen elements, a one-element [()] and the doc example's [f32; 6]
DataInputs ==
    {[size |-> 1, elems |-> [i \in 1..n |-> <<i>>]] : n \in 0..MaxLen}
    \cup {[size |-> 0, elems |-> <<<<>>>>], vertex_data}

\* attribute indexes passed by the caller: a slot, and one past the last slot
AttribIndexes == {0, 1}
\* byte offsets passed to buffer_sub_data
Offsets == {0, 1}

\* the strictly ascending sequences of n members of H
Ascending(H, n) == {r \in SeqsOf(H, n) : \A i \in 1..(n - 1) : r[i] < r[i + 1]}

\* the (count, region) pairs passed to the N-handle deletions: the region
\* holds count handles (one, unread, when count < 1)
Deletions(H) ==
    UNION {{[count |-> n, region |-> r] : r \in Ascending(H, n)} : n \in 1..MaxCount}
    \cup {[count |-> n, region |-> <<0>>] : n \in {-1, 0}}

\* the caller's output region for a generation of `count` handles, zeroed
\* (let mut vao = VAO(0)); the pointer names at least one handle
ZeroRegion(count) == [i \in 1..(IF count < 1 THEN 1 ELSE count) |-> 0]

\* the driver writes the generated names from the region's first slot on
WriteOut(region, written) ==
    [i \in 1..Len(region) |-> IF i <= Len(written) THEN written[i] ELSE region[i]]

NoScn == [pos |-> -1, h |-> 0]

\* gen_buffer -> bind_buffer(ArrayBuffer, h) -> buffer_data(ArrayBuffer, vertex_data,
\* StaticDraw) -> enable_vertex_attrib_array(0) -> vertex_attrib_pointer(0, 2, Float, false, 0)
ScnNext(op, args, ret) ==
    IF scn.pos = 0 /\ op = "gen_buffer" THEN [pos |-> 1, h |-> ret]
    ELSE IF scn.pos = 1 /\ op = "bind_buffer"
            /\ args = [target |-> "ArrayBuffer", buffer |-> scn.h]
    THEN [scn EXCEPT !.pos = 2]
    ELSE IF scn.pos = 2 /\ op = "buffer_data"
            /\ args = [target |-> "ArrayBuffer", data |-> vertex_data, usage |-> "StaticDraw"]
    THEN [scn EXCEPT !.pos = 3]
    ELSE IF scn.pos = 3 /\ op = "enable_vertex_attrib_array" /\ args = [index |-> 0]
    THEN [scn EXCEPT !.pos = 4]
    ELSE IF scn.pos = 4 /\ op = "vertex_attrib_pointer"
            /\ args = [index |-> 0, size |-> 2, type |-> "Float",
                       normalised |-> FALSE, stride |-> 0]
    THEN [scn EXCEPT !.pos = 5]
    ELSE NoScn

\* One invocation of wrapper `op` with `args`: w is what the wrapper does,
\* region the caller's output region before the call.
Invoke(op, args, w, region) ==
    /\ steps' = steps + 1
    /\ IF w.panic \/ w.calls = <<>>
       THEN /\ gl' = gl
            /\ last' = [op |-> op, args |-> args, panicked |-> w.panic,
                        crashed |-> FALSE, calls |-> w.calls, err |-> "NO_ERROR",
                        out |-> region]
            /\ scn' = IF w.panic THEN NoScn ELSE ScnNext(op, args, region[1])
       ELSE \E r \in Driver(gl, w.calls[1]) :
            /\ gl' = r.gl
            /\ last' = [op |-> op, args |-> args, panicked |-> FALSE,
                        crashed |-> r.crashed, calls |-> w.calls, err |-> r.err,
                        out |-> WriteOut(region, r.written)]
            /\ scn' = IF r.crashed THEN NoScn
                      ELSE ScnNext(op, args, WriteOut(region, r.written)[1])
    /\ dead' = [bufs |-> dead.bufs \cup (gl.buffers \ gl'.buffers),
                vaos |-> dead.vaos \cup (gl.arrays \ gl'.arrays)]

Idle == [op |-> "none", args |-> <<>>, panicked |-> FALSE, crashed |-> FALSE,
         calls |-> <<>>, err |-> "NO_ERROR", out |-> <<0>>]

\* the caller is between invocations and the run has invocations left, or is
\* still following the doc example
Running == last = Idle /\ (steps < MaxSteps \/ scn.pos >= 0)

Init ==
    /\ gl \in {InitGL(p) : p \in Profiles}
    /\ last = Idle
    /\ scn = [pos |-> 0, h |-> 0]
    /\ dead = [bufs |-> {}, vaos |-> {}]
    /\ steps = 0

Call_gen_vertex_arrays ==
    /\ Running
    /\ \E count \in -1..MaxCount :
           Invoke("gen_vertex_arrays", [count |-> count], gen_vertex_arrays(count),
                  ZeroRegion(count))

Call_gen_vertex_array ==
    /\ Running
    /\ Invoke("gen_vertex_array", <<>>, gen_vertex_array, <<0>>)

Call_gen_buffers ==
    /\ Running
    /\ \E count \in -1..MaxCount :
           Invoke("gen_buffers", [count |-> count], gen_buffers(count), ZeroRegion(count))

Call_gen_buffer ==
    /\ Running
    /\ Invoke("gen_buffer", <<>>, gen_buffer, <<0>>)

Call_bind_vertex_array ==
    /\ Running
    /\ \E array \in VaoHandles :
           Invoke("bind_vertex_array", [array |-> array], bind_vertex_array(array), <<0>>)

Call_bind_buffer ==
    /\ Running
    /\ \E target \in Target, buffer \in BufHandles :
           Invoke("bind_buffer", [target |-> target, buffer |-> buffer],
                  bind_buffer(target, buffer), <<0>>)

Call_unbind_buffer ==
    /\ Running
    /\ \E target \in Target :
           Invoke("unbind_buffer", [target |-> target], unbind_buffer(target), <<0>>)

Call_enable_vertex_attrib_array ==
    /\ Running
    /\ \E index \in AttribIndexes :
           Invoke("enable_vertex_attrib_array", [index |-> index],
                  enable_vertex_attrib_array(index), <<0>>)

Call_vertex_attrib_pointer ==
    /\ Running
    /\ \E index \in AttribIndexes, size \in {2, 5}, type_ \in Type,
          normalised \in BOOLEAN, stride \in {0} :
           Invoke("vertex_attrib_pointer",
                  [index |-> index, size |-> size, type |-> type_,
                   normalised |-> normalised, stride |-> stride],
                  vertex_attrib_pointer(index, size, type_, normalised, stride), <<0>>)

Call_buffer_data ==
    /\ Running
    /\ \E target \in Target, data \in DataInputs, usage \in Usage :
           Invoke("buffer_data", [target |-> target, data |-> data, usage |-> usage],
                  buffer_data(target, data, usage), <<0>>)

Call_buffer_sub_data ==
    /\ Running
    /\ \E target \in Target, offset \in Offsets, size \in -1..MaxLen,
          data \in DataInputs \ {vertex_data} :
           Invoke("buffer_sub_data",
                  [target |-> target, offset |-> offset, size |-> size, data |-> data],
                  buffer_sub_data(target, offset, size, data), <<0>>)

Call_delete_buffers ==
    /\ Running
    /\ \E d \in Deletions(BufHandles) :
           Invoke("delete_buffers", [count |-> d.count, buffers |-> d.region],
                  delete_buffers(d.count, d.region), d.region)

Call_delete_buffer ==
    /\ Running
    /\ \E buffer \in BufHandles :
           Invoke("delete_buffer", [buffer |-> buffer], delete_buffer(buffer), <<buffer>>)

Call_delete_vertex_arrays ==
    /\ Running
    /\ \E d \in Deletions(VaoHandles) :
           Invoke("delete_vertex_arrays", [count |-> d.count, arrays |-> d.region],
                  delete_vertex_arrays(d.count, d.region), d.region)

Call_delete_vertex_array ==
    /\ Running
    /\ \E array \in VaoHandles :
           Invoke("delete_vertex_array", [array |-> array], delete_vertex_array(array),
                  <<array>>)

\* the caller takes the result and moves on (a fault in the driver ends the process)
Continue ==
    /\ last # Idle
    /\ ~last.crashed
    /\ last' = Idle
    /\ UNCHANGED <<gl, scn, dead, steps>>

Next ==
    \/ Continue
    \/ Call_gen_vertex_arrays
    \/ Call_gen_vertex_array
    \/ Call_gen_buffers
    \/ Call_gen_buffer
    \/ Call_bind_vertex_array
    \/ Call_bind_buffer
    \/ Call_unbind_buffer
    \/ Call_enable_vertex_attrib_array
    \/ Call_vertex_attrib_pointer
    \/ Call_buffer_data
    \/ Call_buffer_sub_data
    \/ Call_delete_buffers
    \/ Call_delete_buffer
    \/ Call_delete_vertex_arrays
    \/ Call_delete_vertex_array

Spec == Init /\ [][Next]_vars

(***************************************************************************)
(* Properties.                                                             *)
(***************************************************************************)
\* this step is an invocation: last' describes it, gl and gl' are the driver
\* context before and after it
Invoked == last = Idle /\ last' # Idle

IsUpload(l) == l.op \in {"buffer_data", "buffer_sub_data"}

\* byte j (from 0) of a slice's memory: byte j % S of element j \div S
ElemByte(d, j) == d.elems[(j \div d.size) + 1][(j % d.size) + 1]

\* s holds exactly the K*S bytes of slice d
HoldsSlice(s, d) ==
    /\ Len(s) = Len(d.elems) * d.size
    /\ \A j \in 0..(Len(s) - 1) : s[j + 1] = ElemByte(d, j)

\* C1: buffer_data with a non-empty slice of K elements of S bytes asks the
\* driver for a store of exactly K*S bytes filled with the slice's bytes, and
\* the buffer bound at the target then has exactly that store, whatever it
\* held before.
C1_BufferDataExactFit ==
    (last.op = "buffer_data" /\ last.args.data.elems # <<>>) =>
        LET d == last.args.data
        IN /\ ~last.panicked
           /\ Len(last.calls) = 1
           /\ last.calls[1].fn = "BufferData"
           /\ last.calls[1].target = ARRAY_BUFFER
           /\ last.calls[1].size = Len(d.elems) * d.size
           /\ HoldsSlice(last.calls[1].data, d)
           /\ gl.arrayBuffer # 0 =>
                  /\ last.err = "NO_ERROR"
                  /\ HoldsSlice(gl.store[gl.arrayBuffer], d)

C1_Witness ==
    /\ last.op = "buffer_data"
    /\ last.args.data = vertex_data
    /\ gl.arrayBuffer # 0
    /\ Len(gl.store[gl.arrayBuffer]) = 24
    /\ gl.store[gl.arrayBuffer][4] = 0
    /\ gl.store[gl.arrayBuffer][8] = 63

\* C2: buffer_sub_data(target, O, M, data) on a bound buffer of capacity C with
\* O+M <= C changes only the bytes at positions [O, O+M) of that buffer's
\* store: every other byte, the capacity, the other buffers' stores, the names
\* in use, the bindings and the attribute state are as before.
C2_SubDataFrame ==
    [][(Invoked /\ last'.op = "buffer_sub_data" /\ gl.arrayBuffer # 0
        /\ last'.args.offset + last'.args.size <= Len(gl.store[gl.arrayBuffer])) =>
          LET b == gl.arrayBuffer
              O == last'.args.offset
              M == last'.args.size
          IN /\ Len(gl'.store[b]) = Len(gl.store[b])
             /\ \A i \in 1..Len(gl.store[b]) :
                    (i <= O \/ i > O + M) => gl'.store[b][i] = gl.store[b][i]
             /\ \A x \in BufNames \ {b} : gl'.store[x] = gl.store[x]
             /\ gl'.buffers = gl.buffers
             /\ gl'.arrays = gl.arrays
             /\ gl'.arrayBuffer = gl.arrayBuffer
             /\ gl'.vertexArray = gl.vertexArray
             /\ gl'.attribs = gl.attribs]_vars

C2_Witness ==
    /\ last.op = "buffer_sub_data"
    /\ ~last.panicked /\ ~last.crashed /\ last.err = "NO_ERROR"
    /\ last.args.offset = 1
    /\ last.args.size = 1
    /\ gl.arrayBuffer # 0
    /\ Len(gl.store[gl.arrayBuffer]) = 24
    /\ gl.store[gl.arrayBuffer][1] = 0
    /\ gl.store[gl.arrayBuffer][2] = 1
    /\ gl.store[gl.arrayBuffer][3] = 0

\* the n slots of out hold pairwise distinct non-zero names, none in `used`
FreshNames(out, n, used) ==
    /\ Len(out) = n
    /\ \A i \in 1..n : out[i] # 0 /\ out[i] \notin used
    /\ \A i, j \in 1..n : i # j => out[i] # out[j]

C4_EmptyUploadFails ==
    [][(Invoked /\ IsUpload(last') /\ last'.args.data.elems = <<>>) =>
          /\ last'.panicked
          /\ last'.calls = <<>>
          /\ gl' = gl]_vars

C4_Witness ==
    /\ IsUpload(last)
    /\ last.args.data.elems = <<>>
    /\ last.panicked
    /\ gl.arrayBuffer # 0
    /\ Len(gl.store[gl.arrayBuffer]) > 0

\* C5: unbind_buffer(target) leaves the driver as bind_buffer(target, Buffer(0))
\* would from the same state, and no buffer is bound at the target afterwards,
\* whatever was bound before.
C5_UnbindIsBindZero ==
    [][(Invoked /\ last'.op = "unbind_buffer") =>
          /\ bind_buffer(last'.args.target, 0).panic = last'.panicked
          /\ \E r \in Driver(gl, bind_buffer(last'.args.target, 0).calls[1]) :
                 gl' = r.gl /\ last'.err = r.err
          /\ gl'.arrayBuffer = 0]_vars

C5_Witness ==
    /\ last.op = "unbind_buffer"
    /\ last.err = "NO_ERROR"
    /\ gl.arrayBuffer = 0
    /\ gl.buffers # {}
    /\ \E b \in gl.buffers : Len(gl.store[b]) > 0

IsBufferBind(l) == l.op \in {"bind_buffer", "unbind_buffer"}
IsDelete(l) ==
    l.op \in {"delete_buffers", "delete_buffer", "delete_vertex_arrays",
              "delete_vertex_array"}

\* what holds of every bind, whatever the handle
BindFrame ==
    /\ last'.op = "unbind_buffer" => gl'.arrayBuffer = 0
    /\ IsBufferBind(last') => gl'.vertexArray = gl.vertexArray
    /\ last'.op = "bind_vertex_array" => gl'.arrayBuffer = gl.arrayBuffer
    /\ (~IsBufferBind(last') /\ last'.op # "bind_vertex_array" /\ ~IsDelete(last')) =>
           /\ gl'.arrayBuffer = gl.arrayBuffer
           /\ gl'.vertexArray = gl.vertexArray

\* C6 as stated: every bind overwrites the binding with the handle passed,
\* whatever the handle; invocations that are neither binds nor deletions leave
\* the bindings alone, and a bind of one kind leaves the other kind's binding.
C6_Original ==
    [][Invoked =>
          /\ last'.op = "bind_buffer" => gl'.arrayBuffer = last'.args.buffer
          /\ last'.op = "bind_vertex_array" => gl'.vertexArray = last'.args.array
          /\ BindFrame]_vars

\* C6 amended: a bind with the zero handle or with a name in use overwrites
\* the binding with the handle passed.  A bind with any other value is either
\* rejected by the driver (INVALID_OPERATION, nothing changes; always so for
\* vertex arrays) or, for buffers on a context that creates objects on first
\* bind, binds the name.  Invocations that are neither binds nor deletions
\* leave the bindings alone, and a bind of one kind leaves the other kind's.
C6_BindOverwritesWhenValid ==
    [][Invoked =>
          /\ last'.op = "bind_buffer" =>
                 LET h == last'.args.buffer
                 IN IF h = 0 \/ h \in gl.buffers
                    THEN gl'.arrayBuffer = h /\ last'.err = "NO_ERROR"
                    ELSE \/ gl' = gl /\ last'.err = "INVALID_OPERATION"
                         \/ gl'.arrayBuffer = h /\ last'.err = "NO_ERROR"
          /\ last'.op = "bind_vertex_array" =>
                 LET a == last'.args.array
                 IN IF a = 0 \/ a \in gl.arrays
                    THEN gl'.vertexArray = a /\ last'.err = "NO_ERROR"
                    ELSE gl' = gl /\ last'.err = "INVALID_OPERATION"
          /\ BindFrame]_vars

C6_Witness ==
    /\ last.op = "bind_vertex_array"
    /\ last.args.array # 0
    /\ gl.vertexArray = last.args.array
    /\ gl.arrayBuffer # 0

\* the one driver call each wrapper issues for its arguments
ExpectedCall(op, a) ==
    CASE op = "gen_vertex_arrays" -> [fn |-> "GenVertexArrays", n |-> a.count]
      [] op = "gen_vertex_array" -> [fn |-> "GenVertexArrays", n |-> 1]
      [] op = "gen_buffers" -> [fn |-> "GenBuffers", n |-> a.count]
      [] op = "gen_buffer" -> [fn |-> "GenBuffers", n |-> 1]
      [] op = "bind_vertex_array" -> [fn |-> "BindVertexArray", array |-> a.array]
      [] op = "bind_buffer" ->
             [fn |-> "BindBuffer", target |-> 34962, buffer |-> a.buffer]
      [] op = "unbind_buffer" -> [fn |-> "BindBuffer", target |-> 34962, buffer |-> 0]
      [] op = "enable_vertex_attrib_array" ->
             [fn |-> "EnableVertexAttribArray", index |-> a.index]
      [] op = "vertex_attrib_pointer" ->
             [fn |-> "VertexAttribPointer", index |-> a.index, size |-> a.size,
              type |-> 5126, norm |-> IF a.normalised THEN 1 ELSE 0,
              stride |-> a.stride, pointer |-> 0]
      [] op = "buffer_data" ->
             [fn |-> "BufferData", target |-> 34962,
              size |-> Len(a.data.elems) * a.data.size,
              data |-> [j \in 1..(Len(a.data.elems) * a.data.size) |->
                           ElemByte(a.data, j - 1)],
              usage |-> 35044]
      [] op = "buffer_sub_data" ->
             [fn |-> "BufferSubData", target |-> 34962, offset |-> a.offset,
              size |-> a.size,
              data |-> [j \in 1..(Len(a.data.elems) * a.data.size) |->
                           ElemByte(a.data, j - 1)]]
      [] op = "delete_buffers" ->
             [fn |-> "DeleteBuffers", n |-> a.count, names |-> a.buffers]
      [] op = "delete_buffer" ->
             [fn |-> "DeleteBuffers", n |-> 1, names |-> <<a.buffer>>]
      [] op = "delete_vertex_arrays" ->
             [fn |-> "DeleteVertexArrays", n |-> a.count, names |-> a.arrays]
      [] op = "delete_vertex_array" ->
             [fn |-> "DeleteVertexArrays", n |-> 1, names |-> <<a.array>>]

\* C7 as stated: every invocation of a wrapper issues exactly one driver call.
C7_Original ==
    last # Idle => ~last.panicked /\ Len(last.calls) = 1

\* C7 amended: every invocation issues exactly one driver call, fixed by the
\* wrapper's own arguments alone (handles, counts, indexes, offsets and sizes
\* unchanged, enumerations as their GL codes, the byte size of buffer_data
\* computed from the slice, a null attribute pointer), except an upload with
\* an empty slice, which panics and issues none.
C7_OneCallUnlessEmptyUpload ==
    last # Idle =>
        IF IsUpload(last) /\ last.args.data.elems = <<>>
        THEN last.panicked /\ last.calls = <<>>
        ELSE /\ ~last.panicked
             /\ last.calls = <<ExpectedCall(last.op, last.args)>>

C7_Witness ==
    /\ last.op = "vertex_attrib_pointer"
    /\ last.args.normalised
    /\ last.args.size = 2
    /\ Len(last.calls) = 1
    /\ last.calls[1].norm = 1
    /\ last.err = "NO_ERROR"

\* the doc example ran to its end with every step accepted
RoundTripDone ==
    /\ gl.arrayBuffer = scn.h
    /\ scn.h # 0
    /\ HoldsSlice(gl.store[scn.h], vertex_data)
    /\ Len(gl.store[scn.h]) = 24
    /\ gl.attribs[gl.vertexArray][0] =
           [enabled |-> TRUE, size |-> 2, type |-> 5126, norm |-> 0, stride |-> 0,
            pointer |-> 0, buffer |-> scn.h]

\* C8 as stated: from an initialised driver, gen_buffer -> bind_buffer ->
\* buffer_data(six floats) -> enable_vertex_attrib_array(0) ->
\* vertex_attrib_pointer(0, 2, Float, false, 0) raises no driver error at any
\* step and ends with h bound, a 24-byte store and slot 0 configured at offset 0.
C8_Original ==
    /\ scn.pos >= 1 => last = Idle \/ last.err = "NO_ERROR"
    /\ (scn.pos = 5 /\ last # Idle) => RoundTripDone

\* C8 amended: the first three steps raise no driver error and leave h bound
\* with a 24-byte store holding the six floats, on every context.  On a
\* context that keeps attribute state without a bound vertex array
\* (compatibility profile) the last two steps raise no error either and slot 0
\* ends enabled, configured (2, Float, not normalised, stride 0) at byte
\* offset 0 on buffer h; on a core-profile context, where this sequence binds
\* no vertex array, the driver rejects both with INVALID_OPERATION.
C8_RoundTrip ==
    last # Idle =>
        /\ scn.pos \in 1..3 => last.err = "NO_ERROR"
        /\ scn.pos >= 2 => gl.arrayBuffer = scn.h /\ scn.h # 0
        /\ scn.pos >= 3 =>
               /\ HoldsSlice(gl.store[scn.h], vertex_data)
               /\ Len(gl.store[scn.h]) = 24
        /\ (scn.pos \in 4..5 /\ gl.profile = "compat") => last.err = "NO_ERROR"
        /\ (scn.pos \in 4..5 /\ gl.profile = "core") =>
               last.err = "INVALID_OPERATION"
        /\ (scn.pos = 5 /\ gl.profile = "compat") => RoundTripDone

C8_Witness ==
    /\ scn.pos = 5
    /\ last.op = "vertex_attrib_pointer"
    /\ gl.profile = "compat"
    /\ RoundTripDone

\* C9 as stated: a bind with a handle that has been deleted completes without
\* a wrapper failure and leaves no live object bound at that binding point;
\* a deletion leaves the handles it was not given live, with their stores.
C9_Original ==
    [][Invoked =>
          /\ (last'.op = "bind_buffer" /\ last'.args.buffer \in dead.bufs) =>
                 ~last'.panicked /\ gl'.arrayBuffer = 0
          /\ (last'.op = "bind_vertex_array" /\ last'.args.array \in dead.vaos) =>
                 ~last'.panicked /\ gl'.vertexArray = 0]_vars

\* the names a deletion was given
Given(l) ==
    CASE l.op = "delete_buffers" -> {l.args.buffers[i] : i \in 1..l.args.count}
      [] l.op = "delete_buffer" -> {l.args.buffer}
      [] l.op = "delete_vertex_arrays" -> {l.args.arrays[i] : i \in 1..l.args.count}
      [] l.op = "delete_vertex_array" -> {l.args.array}

\* C9 amended: a bind with a handle that has been deleted completes without a
\* wrapper failure, the stale value forwarded unchanged in one driver call.
\* While the name is unused the driver either rejects the call
\* (INVALID_OPERATION) and leaves the context, its binding included, as it
\* was (always so for vertex arrays), or, for buffers on a context that
\* creates objects on first bind, binds a new empty object of that name; once
\* the name has been handed out again the bind binds the new object.  A
\* deletion leaves the names it was not given in use, with their stores, and
\* unbinds a deleted name that was bound.
C9_StaleBindForwarded ==
    [][Invoked =>
          /\ (last'.op = "bind_buffer" /\ last'.args.buffer \in dead.bufs) =>
                 LET h == last'.args.buffer
                 IN /\ ~last'.panicked
                    /\ last'.calls = <<[fn |-> "BindBuffer", target |-> 34962,
                                        buffer |-> h]>>
                    /\ IF h \in gl.buffers
                       THEN gl'.arrayBuffer = h /\ last'.err = "NO_ERROR"
                       ELSE \/ gl' = gl /\ last'.err = "INVALID_OPERATION"
                            \/ /\ last'.err = "NO_ERROR"
                               /\ gl'.arrayBuffer = h
                               /\ gl'.buffers = gl.buffers \cup {h}
                               /\ gl'.store[h] = <<>>
          /\ (last'.op = "bind_vertex_array" /\ last'.args.array \in dead.vaos) =>
                 LET a == last'.args.array
                 IN /\ ~last'.panicked
                    /\ last'.calls = <<[fn |-> "BindVertexArray", array |-> a]>>
                    /\ IF a \in gl.arrays
                       THEN gl'.vertexArray = a /\ last'.err = "NO_ERROR"
                       ELSE gl' = gl /\ last'.err = "INVALID_OPERATION"
          /\ last'.op \in {"delete_buffers", "delete_buffer"} =>
                 /\ gl.buffers \ Given(last') \subseteq gl'.buffers
                 /\ \A b \in gl.buffers \ Given(last') : gl'.store[b] = gl.store[b]
                 /\ gl'.arrays = gl.arrays
                 /\ gl'.arrayBuffer \in gl'.buffers \cup {0}
          /\ last'.op \in {"delete_vertex_arrays", "delete_vertex_array"} =>
                 /\ gl.arrays \ Given(last') \subseteq gl'.arrays
                 /\ gl'.buffers = gl.buffers
                 /\ gl'.store = gl.store
                 /\ gl'.vertexArray \in gl'.arrays \cup {0}]_vars

C9_Witness ==
    /\ last.op = "bind_buffer"
    /\ last.args.buffer \in dead.bufs
    /\ last.err = "INVALID_OPERATION"
    /\ gl.arrayBuffer # 0
    /\ gl.arrayBuffer # last.args.buffer
    /\ gl.arrayBuffer \in gl.buffers

\* C10 as stated, for the calls the driver acts on: the size buffer_sub_data
\* hands the driver never exceeds the bytes of the slice it points into (and
\* is not negative), so the driver never reads past the end of the slice.
C10_SubDataSourceInBounds ==
    (last.op = "buffer_sub_data" /\ ~last.panicked
     /\ (last.crashed \/ last.err = "NO_ERROR")) =>
        /\ 0 <= last.calls[1].size
        /\ last.calls[1].size <= Len(last.args.data.elems) * last.args.data.size

====
